---- MODULE Spec2Model ----
(***************************************************************************)
(* LocalStorageUtil (src/index.js, the module installed by lines 13-197): *)
(* key/value entries in localStorage with an optional path context and an *)
(* optional expiry time.                                                   *)
(*                                                                         *)
(* A stored string is a sequence of lexical tokens (punctuation, scalar    *)
(* literals, an unquoted word); JSON.stringify writes such a sequence and  *)
(* JSON.parse is a recursive-descent parser over it.  A JavaScript string  *)
(* value (a context, a pathname) is a sequence of characters.  Keys are    *)
(* ordinary names, none of them the name of a member of Storage itself.    *)
(*                                                                         *)
(* The script's second function (lines 276-386) is modelled as far as it   *)
(* can act once the first has run: its guard, its listener and the cleanup *)
(* that listener would run.  Dates go through the host's local time, which *)
(* may change its offset once.                                             *)
(***************************************************************************)
EXTENDS Integers, Sequences, FiniteSets, TLC

\* storage: localStorage; now: the clock, in milliseconds; pathname:
\* location.pathname; DEBUG: the debug flag.  op, arg, ret: the last call, its
\* key and what it returned.  wrote[k]: how key k was last written ("stored"
\* by setValue, "storedPast" by setValue with no context and an expiry already
\* passed, "removed" after removeValue, "none" otherwise).  input: the
\* arguments a store-and-read run was started with.
\* call: what the last step was given or did (the arguments of setValue, the
\* passes run and the keys removed by an unload event).  page: the API object
\* installed in globalThis and the beforeunload listeners registered.
\* tz: the host's time zone.  pending: the part of a cleanup snapshot that a
\* pass running step by step has still to visit.  reads: what the reads of one
\* entry returned since it was written, with the path each was made at.
VARIABLES storage, now, pathname, DEBUG, op, arg, ret, wrote, input,
          call, page, tz, pending, reads

vars == <<storage, now, pathname, DEBUG, op, arg, ret, wrote, input,
          call, page, tz, pending, reads>>
\* what no method of the API writes
env == <<page, tz, pending, reads>>

\* ---------------------------------------------------------------- bounds
\* the clock runs from 1 to MaxNow
MaxNow == 3
\* pathnames have at most MaxPathLen characters, contexts at most MaxCtxLen
MaxPathLen == 3
MaxCtxLen == 3

\* ------------------------------------------------------- JavaScript values
JNull == [t |-> "null"]
Undefined == [t |-> "undefined"]
JBool(b) == [t |-> "bool", b |-> b]
JNum(n) == [t |-> "num", n |-> n]
JStr(s) == [t |-> "str", s |-> s]
\* an object: its own properties in insertion order, <<name, value>> each
JObj(m) == [t |-> "obj", m |-> m]
\* a Date object holding epoch milliseconds
JDate(ms) == [t |-> "date", ms |-> ms]
\* the string held by the backend, as a JavaScript string value
RawStr(ts) == [t |-> "raw", ts |-> ts]
\* an array of results
JList(items) == [t |-> "list", items |-> items]
\* a thrown TypeError
Raise == [t |-> "TypeError"]

\* property names, spelled out
P_value == <<"v", "a", "l", "u", "e">>
P_context == <<"c", "o", "n", "t", "e", "x", "t">>
P_validTime == <<"v", "a", "l", "i", "d", "T", "i", "m", "e">>
P_other == <<"x">>
P_hasOwnProperty ==
  <<"h", "a", "s", "O", "w", "n", "P", "r", "o", "p", "e", "r", "t", "y">>

\* JavaScript truthiness (the conditions of lines 47, 56, 98, 107)
Truthy(x) ==
  CASE x.t = "null" -> FALSE
    [] x.t = "undefined" -> FALSE
    [] x.t = "bool" -> x.b
    [] x.t = "num" -> x.n # 0
    [] x.t = "str" -> x.s # <<>>
    [] x.t = "raw" -> x.ts # <<>>
    [] OTHER -> TRUE

\* x >= n for a number n (line 59): a number compares by value, true is 1,
\* null and false are 0, the strings and objects of the model convert to NaN
GreaterEq(x, n) ==
  CASE x.t = "num" -> x.n >= n
    [] x.t = "bool" -> (IF x.b THEN 1 ELSE 0) >= n
    [] x.t = "null" -> 0 >= n
    [] OTHER -> FALSE

\* ------------------------------------------------------------------- JSON
LBrace == [t |-> "{"]
RBrace == [t |-> "}"]
Colon == [t |-> ":"]
Comma == [t |-> ","]
\* text that is no JSON token, such as an unquoted word
Word == [t |-> "word"]

IsScalar(x) == x.t \in {"null", "bool", "num", "str"}

RECURSIVE JSONstringify(_)
RECURSIVE StringifyMembers(_)
StringifyMembers(m) ==
  IF m = <<>> THEN <<>>
  ELSE <<JStr(m[1][1]), Colon>> \o JSONstringify(m[1][2])
       \o (IF Len(m) = 1 THEN <<>> ELSE <<Comma>> \o StringifyMembers(Tail(m)))

JSONstringify(v) ==
  IF v.t = "obj" THEN <<LBrace>> \o StringifyMembers(v.m) \o <<RBrace>>
  ELSE <<v>>

ParseFail == [ok |-> FALSE, val |-> JNull, rest |-> <<>>]

\* own property p of the members m set to v: a repeated name keeps its place
PutMember(m, p, v) ==
  IF \E i \in 1..Len(m) : m[i][1] = p
  THEN [i \in 1..Len(m) |-> IF m[i][1] = p THEN <<p, v>> ELSE m[i]]
  ELSE Append(m, <<p, v>>)

RECURSIVE ParseValue(_)
RECURSIVE ParseMembers(_, _)
ParseMembers(ts, acc) ==
  IF Len(ts) < 3 \/ ts[1].t # "str" \/ ts[2] # Colon THEN ParseFail
  ELSE LET r == ParseValue(SubSeq(ts, 3, Len(ts)))
       IN IF ~r.ok \/ r.rest = <<>> THEN ParseFail
          ELSE LET m == PutMember(acc, ts[1].s, r.val)
               IN IF Head(r.rest) = RBrace
                  THEN [ok |-> TRUE, val |-> JObj(m), rest |-> Tail(r.rest)]
                  ELSE IF Head(r.rest) = Comma THEN ParseMembers(Tail(r.rest), m)
                  ELSE ParseFail

ParseValue(ts) ==
  IF ts = <<>> THEN ParseFail
  ELSE IF IsScalar(Head(ts)) THEN [ok |-> TRUE, val |-> Head(ts), rest |-> Tail(ts)]
  ELSE IF Head(ts) = LBrace
       THEN IF Len(ts) >= 2 /\ ts[2] = RBrace
            THEN [ok |-> TRUE, val |-> JObj(<<>>), rest |-> SubSeq(ts, 3, Len(ts))]
            ELSE ParseMembers(Tail(ts), <<>>)
  ELSE ParseFail

\* JSON.parse of a JavaScript value: null is converted to the text null
JSONparse(x) ==
  IF x.t = "null" THEN [ok |-> TRUE, val |-> JNull, rest |-> <<>>]
  ELSE LET r == ParseValue(x.ts)
       IN IF r.ok /\ r.rest = <<>> THEN r ELSE ParseFail

\* ---------------------------------------------------------------- backend
\* localStorage: a partial function from keys to stored strings
Keys == {"k1", "k2"}
\* the backend's key enumeration order
KeyOrder == <<"k1", "k2">>

getItem(st, key) == IF key \in DOMAIN st THEN RawStr(st[key]) ELSE JNull
\* localStorage[key]
PropertyGet(st, key) == IF key \in DOMAIN st THEN RawStr(st[key]) ELSE Undefined
setItem(st, key, str) ==
  [k \in (DOMAIN st) \cup {key} |-> IF k = key THEN str ELSE st[k]]
removeItem(st, key) == [k \in (DOMAIN st) \ {key} |-> st[k]]
\* Object.keys(localStorage)
ObjectKeys(st) == SelectSeq(KeyOrder, LAMBDA k : k \in DOMAIN st)

\* ---------------------------------------------------------- entry classes
\* class PlainEntryValue: no context, no expiry
PlainEntryValue(val) ==
  [cls |-> "Plain", _value |-> val, _context |-> JNull, _validTime |-> JNull]
\* class CustomEntryValue
CustomEntryValue(val, context, validTime) ==
  [cls |-> "Custom", _value |-> val, _context |-> context, _validTime |-> validTime]

\* s.split("/"): the pieces between the slashes, empty pieces included
RECURSIVE SplitFrom(_, _, _)
SplitFrom(s, cur, acc) ==
  IF s = <<>> THEN Append(acc, cur)
  ELSE IF Head(s) = "/" THEN SplitFrom(Tail(s), <<>>, Append(acc, cur))
  ELSE SplitFrom(Tail(s), Append(cur, Head(s)), acc)
split(s) == SplitFrom(s, <<>>, <<>>)
\* the filter left out: every piece kept
filterKeepAll(parts) == parts
\* .filter(path => path)
filterNonEmpty(parts) == SelectSeq(parts, LAMBDA x : x # <<>>)

\* checkContext(): TRUE/FALSE as a boolean value, or the TypeError of calling
\* split on a truthy value that is no string
checkContext(e, path) ==
  IF e.cls = "Plain" THEN JBool(TRUE)
  ELSE IF ~Truthy(e._context) THEN JBool(TRUE)
  ELSE IF e._context.t # "str" THEN Raise
  ELSE LET splitc == filterNonEmpty(split(e._context.s))
           pathnameSplit == filterNonEmpty(split(path))
       IN IF Len(pathnameSplit) < Len(splitc) THEN JBool(FALSE)
          ELSE JBool(\A index \in 1..Len(splitc) : splitc[index] = pathnameSplit[index])

\* checkExpireDate()
\* checkExpireDate with > in place of >=
checkExpireDateStrict(e, time) ==
  IF e.cls = "Plain" THEN TRUE
  ELSE IF ~Truthy(e._validTime) THEN TRUE
  ELSE GreaterEq(e._validTime, time) /\ e._validTime # JNum(time)
checkExpireDate(e, time) ==
  IF e.cls = "Plain" THEN TRUE
  ELSE IF ~Truthy(e._validTime) THEN TRUE
  ELSE GreaterEq(e._validTime, time)

\* isValid() with || in place of &&
isValidEither(e, path, time) ==
  LET c == checkContext(e, path)
  IN IF c = Raise THEN Raise
     ELSE IF c.b THEN JBool(TRUE)
     ELSE JBool(checkExpireDate(e, time))
\* isValid(): checkContext() && checkExpireDate()
isValid(e, path, time) ==
  LET c == checkContext(e, path)
  IN IF c = Raise THEN Raise
     ELSE IF ~c.b THEN JBool(FALSE)
     ELSE JBool(checkExpireDate(e, time))

\* the getter written as isValid() ? (_value || null) : null
valueGetterFalsy(e, path, time) ==
  LET v == isValid(e, path, time)
  IN IF v = Raise THEN Raise
     ELSE IF v.b /\ Truthy(e._value) THEN e._value ELSE JNull
\* get value(): isValid() ? _value : null
valueGetter(e, path, time) ==
  LET v == isValid(e, path, time)
  IN IF v = Raise THEN Raise ELSE IF v.b THEN e._value ELSE JNull

\* ------------------------------------------------------------ the methods
hasOwn(obj, p) == obj.t = "obj" /\ \E i \in 1..Len(obj.m) : obj.m[i][1] = p
member(obj, p) == obj.m[CHOOSE i \in 1..Len(obj.m) : obj.m[i][1] = p][2]

\* obj.hasOwnProperty(p): the inherited method, unless the parsed object has
\* an own property of that name, which is no function
hasOwnPropertyCall(obj, p) ==
  IF hasOwn(obj, P_hasOwnProperty) THEN Raise ELSE JBool(hasOwn(obj, p))

\* the entry object for key, or the TypeError raised while building it
entryOf(p, raw) ==
  IF ~p.ok THEN PlainEntryValue(raw)
  ELSE LET obj == p.val
       IN IF ~Truthy(obj) THEN PlainEntryValue(obj)
          ELSE IF hasOwnPropertyCall(obj, P_value) = Raise THEN Raise
          ELSE IF hasOwn(obj, P_value) /\ hasOwn(obj, P_context)
                  /\ hasOwn(obj, P_validTime)
          THEN CustomEntryValue(member(obj, P_value), member(obj, P_context),
                                member(obj, P_validTime))
          ELSE PlainEntryValue(obj)

\* _getEntryValueObject under a given debug flag: the entry, and the number
\* of console.debug lines written (one in the catch block when the flag is on)
_getEntryValueObjectLog(st, key, debug) ==
  LET p == JSONparse(getItem(st, key))
  IN [entry |-> entryOf(p, getItem(st, key)),
      lines |-> IF ~p.ok /\ debug THEN 1 ELSE 0]

_getEntryValueObject(st, key) == _getEntryValueObjectLog(st, key, DEBUG).entry

\* the string stored when only a Date counts as an expiry (line 283)
setValueStringDateOnly(val, context, validDate) ==
  LET _timeMillis == IF validDate.t = "date" THEN JNum(validDate.ms) ELSE JNull
      ctx == IF context = Undefined THEN JNull ELSE context
  IN JSONstringify(JObj(<< <<P_value, val>>, <<P_context, ctx>>,
                           <<P_validTime, _timeMillis>> >>))
\* the string setValue stores (lines 68-81)
setValueString(val, context, validDate) ==
  LET _timeMillis == IF validDate.t = "num" THEN validDate
                     ELSE IF validDate.t = "date" THEN JNum(validDate.ms)
                     ELSE JNull
      ctx == IF context = Undefined THEN JNull ELSE context
  IN JSONstringify(JObj(<< <<P_value, val>>, <<P_context, ctx>>,
                           <<P_validTime, _timeMillis>> >>))

setValue(st, key, val, context, validDate) ==
  setItem(st, key, setValueString(val, context, validDate))

\* getValue with the pathname read once, when the module was loaded
getValueAtLoad(st, key, path, time) ==
  LET o == _getEntryValueObject(st, key)
  IN IF o = Raise THEN Raise ELSE valueGetter(o, <<"/">>, time)
getValue(st, key, path, time) ==
  LET o == _getEntryValueObject(st, key)
  IN IF o = Raise THEN Raise ELSE valueGetter(o, path, time)

\* removeValue with the removeItem call left out
removeValueKeep(st, key) ==
  IF Truthy(PropertyGet(st, key))
  THEN [ret |-> TRUE, st |-> st]
  ELSE [ret |-> FALSE, st |-> st]
\* removeValue: the returned boolean and the backend afterwards
removeValue(st, key) ==
  IF Truthy(PropertyGet(st, key))
  THEN [ret |-> TRUE, st |-> removeItem(st, key)]
  ELSE [ret |-> FALSE, st |-> st]

\* _entries(): [key, entry object] for every backend key, or Raise
_entries(st) ==
  LET ks == ObjectKeys(st)
  IN IF \E i \in 1..Len(ks) : _getEntryValueObject(st, ks[i]) = Raise THEN Raise
     ELSE JList([i \in 1..Len(ks) |-> <<ks[i], _getEntryValueObject(st, ks[i])>>])

\* entries(): the valid ones, as [key, value]
entries(st, path, time) ==
  LET all == _entries(st)
  IN IF all = Raise THEN Raise
     ELSE IF \E i \in 1..Len(all.items) : isValid(all.items[i][2], path, time) = Raise
     THEN Raise
     ELSE LET kept == SelectSeq(all.items, LAMBDA en : isValid(en[2], path, time).b)
          IN JList([i \in 1..Len(kept) |->
                     <<kept[i][1], valueGetter(kept[i][2], path, time)>>])

keys(st, path, time) ==
  LET es == entries(st, path, time)
  IN IF es = Raise THEN Raise
     ELSE JList([i \in 1..Len(es.items) |-> es.items[i][1]])

values(st, path, time) ==
  LET es == entries(st, path, time)
  IN IF es = Raise THEN Raise
     ELSE JList([i \in 1..Len(es.items) |-> es.items[i][2]])

\* _refresh(): removeValue for every entry of the snapshot whose
\* checkExpireDate() is false; the backend afterwards
RECURSIVE refreshFrom(_, _, _, _)
refreshFrom(st, before, i, time) ==
  IF i > Len(before) THEN st
  ELSE refreshFrom(IF ~checkExpireDate(before[i][2], time)
                   THEN removeValue(st, before[i][1]).st ELSE st,
                   before, i + 1, time)

\* _refresh testing isValid() where the code tests checkExpireDate()
RECURSIVE refreshFromValid(_, _, _, _)
refreshFromValid(st, before, i, time) ==
  IF i > Len(before) THEN st
  ELSE refreshFromValid(IF isValid(before[i][2], pathname, time) = JBool(FALSE)
                        THEN removeValue(st, before[i][1]).st ELSE st,
                        before, i + 1, time)
_refreshByIsValid(st, time) ==
  LET before == _entries(st)
  IN IF before = Raise THEN st ELSE refreshFromValid(st, before.items, 1, time)

\* _refresh with the removals skipped while the debug flag is on
_refreshLogOnly(st, time, debug) ==
  LET before == _entries(st)
  IN IF before = Raise THEN [st |-> st, lines |-> 0]
     ELSE IF debug THEN [st |-> st, lines |-> 1]
     ELSE [st |-> refreshFrom(st, before.items, 1, time), lines |-> 0]
\* _refresh under a given debug flag: the backend afterwards, and the number
\* of console.debug lines written (the before/after line when the flag is on)
_refreshLog(st, time, debug) ==
  LET before == _entries(st)
  IN IF before = Raise THEN [st |-> st, lines |-> 0]
     ELSE LET after == refreshFrom(st, before.items, 1, time)
          IN [st |-> after,
              lines |-> IF debug /\ _entries(after) # Raise THEN 1 ELSE 0]

_refresh(st, time) == _refreshLog(st, time, DEBUG).st

\* ------------------------------------------------- the second variant
\* _getObject (lines 322-338): a prototype-backed entry, a raw value, or Raise
ProtoEntry(val, context, validTime) ==
  [cls |-> "proto", _value |-> val, _context |-> context, _validTime |-> validTime]
RawEntry(val) == [cls |-> "raw", val |-> val]
_getObject(st, key) ==
  LET p == JSONparse(getItem(st, key))
  IN IF ~p.ok
     THEN RawEntry(IF Truthy(getItem(st, key)) THEN getItem(st, key) ELSE JNull)
     ELSE LET obj == p.val
          IN IF ~Truthy(obj) THEN RawEntry(obj)
             ELSE IF hasOwnPropertyCall(obj, P_value) = Raise THEN Raise
             ELSE IF hasOwn(obj, P_value) /\ hasOwn(obj, P_context)
                     /\ hasOwn(obj, P_validTime)
             THEN ProtoEntry(member(obj, P_value), member(obj, P_context),
                             member(obj, P_validTime))
             ELSE RawEntry(obj)

\* the forEach of the second _refresh (lines 362-365): reading
\* value.checkExpireDate of a null value raises and ends the pass
RECURSIVE refreshFromSecond(_, _, _, _)
refreshFromSecond(st, before, i, time) ==
  IF i > Len(before) THEN st
  ELSE LET value == before[i][2]
       IN IF value.cls = "raw" /\ value.val = JNull THEN st
          ELSE refreshFromSecond(
                 IF value.cls = "proto"
                    /\ ~(IF Truthy(value._validTime)
                         THEN GreaterEq(value._validTime, time) ELSE TRUE)
                 THEN removeValue(st, before[i][1]).st ELSE st,
                 before, i + 1, time)

_refreshSecond(st, time) ==
  LET ks == ObjectKeys(st)
  IN IF \E i \in 1..Len(ks) : _getObject(st, ks[i]) = Raise THEN st
     ELSE refreshFromSecond(st, [i \in 1..Len(ks) |-> <<ks[i], _getObject(st, ks[i])>>],
                            1, time)

\* ------------------------------------------------- loading the script
\* a page before the script has run
BlankPage == [api |-> "none", listeners |-> <<>>]
\* the second function without its first line
loadSecondUnguarded(pg) ==
  [api |-> "second", listeners |-> Append(pg.listeners, "second")]
\* the first function (lines 13-197)
loadFirst(pg) ==
  IF pg.api # "none" THEN pg
  ELSE [api |-> "first", listeners |-> Append(pg.listeners, "first")]
\* the second function (lines 276-386)
loadSecond(pg) ==
  IF pg.api # "none" THEN pg
  ELSE [api |-> "second", listeners |-> Append(pg.listeners, "second")]

\* a beforeunload event: every registered listener runs, in order
RECURSIVE runListeners(_, _, _)
runListeners(st, ls, time) ==
  IF ls = <<>> THEN st
  ELSE runListeners(IF Head(ls) = "first" THEN _refresh(st, time)
                    ELSE _refreshSecond(st, time),
                    Tail(ls), time)

\* ------------------------------------------------------------ getDate
MsPerSecond == 1000
MsPerMinute == 60000
MsPerHour == 3600000
\* a time zone: local time is UTC plus an offset, `before' up to the instant
\* `at' and `after' from it on
FixedZone == [before |-> 0, after |-> 0, at |-> 0]
\* clocks are set back one hour at instant 2
FallBackZone == [before |-> MsPerHour, after |-> 0, at |-> 2]
\* clocks are set forward one hour at instant 2
SpringForwardZone == [before |-> 0, after |-> MsPerHour, at |-> 2]
Zones == {FixedZone, FallBackZone, SpringForwardZone}

\* the local time value of instant t (what getSeconds, getMinutes and getHours
\* read their field from)
LocalTime(z, t) == t + (IF t < z.at THEN z.before ELSE z.after)
\* the instant of a local time value (what setSeconds, setMinutes and setHours
\* store): a local time that occurs twice or never is read with the offset in
\* force before the transition
UTC(z, tl) ==
  IF tl - z.before < z.at THEN tl - z.before
  ELSE IF tl - z.after >= z.at THEN tl - z.after
  ELSE tl - z.before
\* d.setX(d.getX() + n), n units of `unit' milliseconds
setField(z, t, unit, n) == UTC(z, LocalTime(z, t) + unit * n)

\* getDate(sec, min, hour) called at instant time in zone z
getDate(sec, min, hour, time, z) ==
  LET d1 == IF Truthy(sec) THEN setField(z, time, MsPerSecond, sec.n) ELSE time
      d2 == IF Truthy(min) THEN setField(z, d1, MsPerMinute, min.n) ELSE d1
      d3 == IF Truthy(hour) THEN setField(z, d2, MsPerHour, hour.n) ELSE d2
  IN JDate(d3)

\* ------------------------------------------------------------ input sets
Chars == {"/", "a", "A"}
StrsUpTo(n) == UNION {[1..m -> Chars] : m \in 0..n}
\* location.pathname starts with a slash
Paths ==
  {<<"/">> \o s : s \in StrsUpTo(MaxPathLen - 1)}
    \cup {<<"/", "a", "/", "a">>, <<"/", "a", "/", "A">>}
Contexts ==
  {JStr(s) : s \in StrsUpTo(MaxCtxLen)}
    \cup {JStr(<<"/", "/", "a", "/", "/">>), JStr(<<"/", "a", "/", "a">>),
          JStr(<<"/", "a", "a">>)}
V == JStr(<<"v">>)
\* an object that itself carries the three property names
Nested ==
  JObj(<< <<P_value, V>>, <<P_context, JNum(1)>>, <<P_validTime, JNum(0)>> >>)
AllValues ==
  {JNull, JBool(FALSE), JBool(TRUE), JNum(0), JNum(1), JStr(<<>>), V, JObj(<<>>),
   Nested, JObj(<< <<P_hasOwnProperty, JNum(1)>> >>)}
NumDates == {JNum(n) : n \in (-1)..(MaxNow + 1)}

\* the calls of a store-and-read run: a value alone, a value with a numeric
\* expiry, a value with a context
Inputs ==
  [val : AllValues, context : {Undefined, JNull}, validDate : {Undefined}]
    \cup [val : {V}, context : {Undefined}, validDate : NumDates]
    \cup [val : {V}, context : Contexts, validDate : {Undefined}]
NoInput == [val |-> Undefined, context |-> Undefined, validDate |-> Undefined]
NoCall == [none |-> TRUE]

\* the calls of the full model
CallPaths == {<<"/">>, <<"/", "a">>}
CallContexts == {Undefined, JStr(<<"/", "a">>)}
CallDates == {Undefined, JNum(0), JDate(1), JNum(MaxNow)}
\* strings written to the backend by other code
ForeignStrings ==
  { <<>>,
    <<Word>>,
    JSONstringify(V),
    JSONstringify(JObj(<< <<P_value, V>> >>)),
    JSONstringify(JObj(<< <<P_value, V>>, <<P_context, JNum(5)>>,
                          <<P_validTime, JNum(1)>> >>)),
    JSONstringify(JObj(<< <<P_value, V>>, <<P_context, JNull>>,
                          <<P_validTime, V>> >>)),
    JSONstringify(JObj(<< <<P_value, V>>, <<P_context, JNull>>,
                          <<P_other, JNull>>, <<P_hasOwnProperty, JNum(1)>> >>)) }

EmptyStorage == [k \in {} |-> <<>>]

\* whether setValue(_, _, context, validDate) at time stores an entry with no
\* context whose expiry is earlier than time
storesPast(context, validDate, time) ==
  /\ context \in {Undefined, JNull}
  /\ \/ validDate.t = "num" /\ validDate.n < time
     \/ validDate.t = "date" /\ validDate.ms < time

\* ---------------------------------------------------------------- actions
Init ==
  /\ storage = EmptyStorage
  /\ now = 1
  /\ pathname = <<"/">>
  /\ DEBUG = FALSE
  /\ op = "init"
  /\ arg = ""
  /\ ret = Undefined
  /\ wrote = [k \in Keys |-> "none"]
  /\ input = NoInput
  /\ call = NoCall
  /\ page = loadSecond(loadFirst(BlankPage))
  /\ tz = FixedZone
  /\ pending = <<>>
  /\ reads = <<>>

SetValueCall(k, v, c, d) ==
  /\ storage' = setValue(storage, k, v, c, d)
  /\ op' = "setValue"
  /\ arg' = k
  /\ ret' = Undefined
  /\ wrote' = [wrote EXCEPT ![k] = IF storesPast(c, d, now) THEN "storedPast"
                                   ELSE "stored"]
  /\ call' = [val |-> v, context |-> c, validDate |-> d]
  /\ UNCHANGED <<now, pathname, DEBUG, input, env>>

SetValue ==
  \E k \in Keys, v \in {V}, c \in CallContexts, d \in CallDates :
    SetValueCall(k, v, c, d)

\* getValue removing the entry it finds invalid
GetValueEvict ==
  \E k \in Keys :
    /\ op' = "getValue"
    /\ arg' = k
    /\ ret' = getValue(storage, k, pathname, now)
    /\ storage' = (IF ret' = JNull THEN removeValue(storage, k).st ELSE storage)
    /\ call' = NoCall
    /\ UNCHANGED <<now, pathname, DEBUG, wrote, input, env>>

GetValue ==
  \E k \in Keys :
    /\ op' = "getValue"
    /\ arg' = k
    /\ ret' = getValue(storage, k, pathname, now)
    /\ call' = NoCall
    /\ UNCHANGED <<storage, now, pathname, DEBUG, wrote, input, env>>

RemoveValue ==
  \E k \in Keys :
    /\ storage' = removeValue(storage, k).st
    /\ op' = "removeValue"
    /\ arg' = k
    /\ ret' = JBool(removeValue(storage, k).ret)
    /\ wrote' = [wrote EXCEPT ![k] = IF @ = "none" THEN "none" ELSE "removed"]
    /\ call' = NoCall
    /\ UNCHANGED <<now, pathname, DEBUG, input, env>>

Entries ==
  /\ op' = "entries"
  /\ arg' = ""
  /\ ret' = entries(storage, pathname, now)
  /\ call' = NoCall
  /\ UNCHANGED <<storage, now, pathname, DEBUG, wrote, input, env>>

KeysCall ==
  /\ op' = "keys"
  /\ arg' = ""
  /\ ret' = keys(storage, pathname, now)
  /\ call' = NoCall
  /\ UNCHANGED <<storage, now, pathname, DEBUG, wrote, input, env>>

ValuesCall ==
  /\ op' = "values"
  /\ arg' = ""
  /\ ret' = values(storage, pathname, now)
  /\ call' = NoCall
  /\ UNCHANGED <<storage, now, pathname, DEBUG, wrote, input, env>>

\* a beforeunload event
Refresh ==
  /\ storage' = runListeners(storage, page.listeners, now)
  /\ op' = "_refresh"
  /\ arg' = ""
  /\ ret' = Undefined
  /\ wrote' = [k \in Keys |-> IF k \in DOMAIN storage /\ k \notin DOMAIN storage'
                              THEN "none" ELSE wrote[k]]
  /\ call' = [passes |-> Len(page.listeners),
              removed |-> DOMAIN storage \ DOMAIN storage']
  /\ UNCHANGED <<now, pathname, DEBUG, input, env>>

EnableDebug ==
  \E b \in {JBool(FALSE), JNum(1)} :
    /\ DEBUG' = (IF Truthy(b) THEN TRUE ELSE FALSE)
    /\ op' = "enableDebug"
    /\ arg' = ""
    /\ ret' = Undefined
    /\ call' = NoCall
    /\ UNCHANGED <<storage, now, pathname, wrote, input, env>>

\* the clock advances
Tick ==
  /\ now < MaxNow
  /\ now' = now + 1
  /\ op' = "tick"
  /\ arg' = ""
  /\ ret' = Undefined
  /\ call' = NoCall
  /\ UNCHANGED <<storage, pathname, DEBUG, wrote, input, env>>

\* the page's path changes without an unload
Navigate ==
  \E p \in CallPaths :
    /\ pathname' = p
    /\ op' = "navigate"
    /\ arg' = ""
    /\ ret' = Undefined
    /\ call' = NoCall
    /\ UNCHANGED <<storage, now, DEBUG, wrote, input, env>>

\* other code sharing the backend writes a string
ForeignWrite ==
  \E k \in Keys, s \in ForeignStrings :
    /\ storage' = setItem(storage, k, s)
    /\ op' = "foreign"
    /\ arg' = k
    /\ ret' = Undefined
    /\ wrote' = [wrote EXCEPT ![k] = "none"]
    /\ call' = NoCall
    /\ UNCHANGED <<now, pathname, DEBUG, input, env>>

GetDate ==
  \E sec \in {JNum(-1)} :
    /\ op' = "getDate"
    /\ arg' = ""
    /\ ret' = getDate(sec, Undefined, Undefined, now, tz)
    /\ call' = NoCall
    /\ UNCHANGED <<storage, now, pathname, DEBUG, wrote, input, env>>

\* the script runs again in the same page: its first function, then its
\* second (the test code between them is left out: it uses keys of its own)
LoadScript ==
  /\ page' = loadSecond(loadFirst(page))
  /\ op' = "load"
  /\ arg' = ""
  /\ ret' = Undefined
  /\ call' = NoCall
  /\ UNCHANGED <<storage, now, pathname, DEBUG, wrote, input, tz, pending, reads>>

Next ==
  \/ SetValue
  \/ GetValue
  \/ RemoveValue
  \/ Entries
  \/ KeysCall
  \/ ValuesCall
  \/ GetDate
  \/ Refresh
  \/ EnableDebug
  \/ Tick
  \/ Navigate
  \/ ForeignWrite
  \/ LoadScript

Spec == Init /\ [][Next]_vars

\* ------------------------------------------------- store-and-read runs
\* one call of setValue on key k1 with arguments drawn at the start, at any
\* path and clock time, then reads and enumerations as the clock advances
InitStoreRead ==
  /\ storage = EmptyStorage
  /\ now \in 1..MaxNow
  /\ pathname \in Paths
  /\ DEBUG = FALSE
  /\ op = "init"
  /\ arg = ""
  /\ ret = Undefined
  /\ wrote = [k \in Keys |-> "none"]
  /\ input \in Inputs
  /\ call = NoCall
  /\ page = loadSecond(loadFirst(BlankPage))
  /\ tz = FixedZone
  /\ pending = <<>>
  /\ reads = <<>>

SetValueInput ==
  SetValueCall("k1", input.val, input.context, input.validDate)

NextStoreRead ==
  \/ SetValueInput
  \/ GetValue
  \/ Entries
  \/ KeysCall
  \/ Tick

SpecStoreRead == InitStoreRead /\ [][NextStoreRead]_vars

\* ---- an expiry computed by getDate, in any time zone, stored and read back
Offsets == {Undefined, JNum(0), JNum(-1), JNum(1)}
DateInputs == [sec : Offsets, min : Offsets, hour : Offsets]

InitDate ==
  /\ storage = EmptyStorage
  /\ now \in 1..MaxNow
  /\ pathname = <<"/">>
  /\ DEBUG = FALSE
  /\ op = "init"
  /\ arg = ""
  /\ ret = Undefined
  /\ wrote = [k \in Keys |-> "none"]
  /\ input \in DateInputs
  /\ call = NoCall
  /\ page = loadSecond(loadFirst(BlankPage))
  /\ tz \in Zones
  /\ pending = <<>>
  /\ reads = <<>>

GetDateInput ==
  /\ op' = "getDate"
  /\ arg' = ""
  /\ ret' = getDate(input.sec, input.min, input.hour, now, tz)
  /\ call' = NoCall
  /\ UNCHANGED <<storage, now, pathname, DEBUG, wrote, input, env>>

\* setValue(key, value, null, getDate(sec, min, hour)), as at line 218
SetValueGetDate ==
  SetValueCall("k1", V, JNull, getDate(input.sec, input.min, input.hour, now, tz))

NextDate ==
  \/ GetDateInput
  \/ SetValueGetDate
  \/ GetValue
  \/ Tick

SpecDate == InitDate /\ [][NextDate]_vars

\* ---- a cleanup pass taken step by step, another tab storing in between
\* the scan (line 133): the snapshot is taken
RefreshScan ==
  /\ pending = <<>>
  /\ pending' = (IF _entries(storage) = Raise THEN <<>> ELSE _entries(storage).items)
  /\ op' = "_refresh.scan"
  /\ arg' = ""
  /\ ret' = Undefined
  /\ call' = NoCall
  /\ UNCHANGED <<storage, now, pathname, DEBUG, wrote, input, page, tz, reads>>

\* one turn of the forEach (lines 134-137): the next entry of the snapshot
RefreshVisit ==
  /\ pending # <<>>
  /\ LET key == Head(pending)[1]
         entryValueObject == Head(pending)[2]
     IN /\ storage' = (IF ~checkExpireDate(entryValueObject, now)
                       THEN removeValue(storage, key).st ELSE storage)
        /\ arg' = key
        /\ call' = [removed |-> key \in DOMAIN storage /\ key \notin DOMAIN storage',
                    stale |-> _getEntryValueObject(storage, key) # entryValueObject]
        /\ wrote' = [wrote EXCEPT ![key] = IF key \in DOMAIN storage
                                              /\ key \notin DOMAIN storage'
                                           THEN "none" ELSE @]
  /\ pending' = Tail(pending)
  /\ op' = "_refresh.visit"
  /\ ret' = Undefined
  /\ UNCHANGED <<now, pathname, DEBUG, input, page, tz, reads>>

NextTabs ==
  \/ RefreshScan
  \/ RefreshVisit
  \/ SetValue
  \/ Tick

SpecTabs == Init /\ [][NextTabs]_vars

\* ---- one entry bound to a context, read again and again as the path changes
MaxReads == 3
SetValueContext ==
  \E d \in {Undefined, JNum(2)} :
    /\ storage' = setValue(storage, "k1", V, JStr(<<"/", "a">>), d)
    /\ op' = "setValue"
    /\ arg' = "k1"
    /\ ret' = Undefined
    /\ wrote' = [wrote EXCEPT !["k1"] = "stored"]
    /\ call' = [val |-> V, context |-> JStr(<<"/", "a">>), validDate |-> d]
    /\ reads' = <<>>
    /\ UNCHANGED <<now, pathname, DEBUG, input, page, tz, pending>>

GetValueTracked ==
  /\ op' = "getValue"
  /\ arg' = "k1"
  /\ ret' = getValue(storage, "k1", pathname, now)
  /\ call' = NoCall
  /\ reads' = (IF Len(reads) < MaxReads THEN Append(reads, ret') ELSE reads)
  /\ UNCHANGED <<storage, now, pathname, DEBUG, wrote, input, page, tz, pending>>

NavigateAny ==
  \E p \in Paths :
    /\ pathname' = p
    /\ op' = "navigate"
    /\ arg' = ""
    /\ ret' = Undefined
    /\ call' = NoCall
    /\ UNCHANGED <<storage, now, DEBUG, wrote, input, env>>

NextNav ==
  \/ SetValueContext
  \/ GetValueTracked
  \/ NavigateAny
  \/ Tick

SpecNav == Init /\ [][NextNav]_vars

\* ------------------------------------------------ what the claims speak of
\* the non-empty segments of a string, read off the positions of its slashes
SegStarts(s) == {i \in 1..Len(s) : s[i] # "/" /\ (i = 1 \/ s[i - 1] = "/")}
SegEnd(s, i) ==
  CHOOSE j \in i..Len(s) :
    /\ \A m \in i..j : s[m] # "/"
    /\ (j = Len(s) \/ s[j + 1] = "/")
NthStart(s, n) ==
  CHOOSE i \in SegStarts(s) : Cardinality({j \in SegStarts(s) : j < i}) = n - 1
Segments(s) ==
  [n \in 1..Cardinality(SegStarts(s)) |->
     SubSeq(s, NthStart(s, n), SegEnd(s, NthStart(s, n)))]
\* the segments of c are, position by position, a prefix of those of path
SegmentPrefix(c, path) ==
  /\ Len(Segments(c)) <= Len(Segments(path))
  /\ \A n \in 1..Len(Segments(c)) : Segments(c)[n] = Segments(path)[n]

\* the string at key k is an encoded entry: a JSON object with the three names
IsEncoded(st, k) ==
  LET p == JSONparse(getItem(st, k))
  IN p.ok /\ hasOwn(p.val, P_value) /\ hasOwn(p.val, P_context)
          /\ hasOwn(p.val, P_validTime)
\* the recorded context and expiry of the entry at k, null for a plain entry
RecordedContext(st, k) ==
  IF IsEncoded(st, k) THEN member(JSONparse(getItem(st, k)).val, P_context)
  ELSE JNull
RecordedExpiry(st, k) ==
  IF IsEncoded(st, k) THEN member(JSONparse(getItem(st, k)).val, P_validTime)
  ELSE JNull
\* the two checks as the specification words them
ExpiryPasses(st, k, time) ==
  \/ RecordedExpiry(st, k) = JNull
  \/ RecordedExpiry(st, k).t = "num" /\ RecordedExpiry(st, k).n >= time
ContextPasses(st, k, path) ==
  \/ RecordedContext(st, k) = JNull
  \/ RecordedContext(st, k).t = "str" /\ SegmentPrefix(RecordedContext(st, k).s, path)

\* the last call read key k1 after the run's setValue wrote it
ReadAfterStore == op = "getValue" /\ arg = "k1" /\ "k1" \in DOMAIN storage

\* ----------------------------------------------------------------- claims
\* C1: a value stored with no context and no expiry is read back unchanged,
\* at every path and clock time (null, false, 0, the empty string and an
\* object carrying value/context/validTime included).
C1_RoundTrip ==
  (ReadAfterStore /\ input.context \in {Undefined, JNull}
     /\ input.validDate = Undefined)
  => ret = input.val

C1_Witness ==
  /\ ReadAfterStore
  /\ input.context = Undefined
  /\ input.validDate = Undefined
  /\ input.val = Nested
  /\ ret = Nested

\* C2: an entry stored with no context and a numeric expiry t reads as the
\* stored value if and only if t >= now, and as null otherwise, for every
\* number t, zero and negative numbers included.
C2_ExpiryIff ==
  (ReadAfterStore /\ input.context = Undefined /\ input.validDate.t = "num")
  => ret = (IF input.validDate.n >= now THEN input.val ELSE JNull)

\* C3: an entry stored with a string context c and no expiry reads as the
\* stored value if and only if the non-empty segments of c are a prefix of
\* the non-empty segments of the current path; otherwise it reads as null and
\* entries() does not list its key.
C3_ContextPrefix ==
  /\ (ReadAfterStore /\ input.context.t = "str" /\ input.validDate = Undefined)
     => ret = (IF SegmentPrefix(input.context.s, pathname) THEN input.val
               ELSE JNull)
  /\ (op = "entries" /\ "k1" \in DOMAIN storage /\ input.context.t = "str"
        /\ input.validDate = Undefined
        /\ ~SegmentPrefix(input.context.s, pathname))
     => (ret.t = "list" /\ \A i \in 1..Len(ret.items) : ret.items[i][1] # "k1")

C3_Witness ==
  /\ ReadAfterStore
  /\ input.context = JStr(<<"/", "a">>)
  /\ pathname = <<"/", "a", "a">>
  /\ ret = JNull

\* C4: after setValue(k, v, null, t) with t earlier than the clock, as long
\* as k is not overwritten, removed or cleaned up, getValue(k) returns null,
\* keys() does not contain k and the backend still holds k; the next cleanup
\* pass removes k from the backend.
C4_ExpiredStore ==
  [][\A k \in Keys :
       /\ wrote'[k] = "storedPast"
          => /\ k \in DOMAIN storage'
             /\ (op' = "getValue" /\ arg' = k) => ret' = JNull
             /\ (op' = "keys" /\ ret'.t = "list")
                => \A i \in 1..Len(ret'.items) : ret'.items[i] # k
       /\ (wrote[k] = "storedPast" /\ op' = "_refresh")
          => k \notin DOMAIN storage']_vars

\* C5: right after a cleanup pass at clock time now, the backend holds no
\* encoded entry whose recorded expiry timestamp is earlier than now.
C5_CleanupComplete ==
  op = "_refresh"
  => \A k \in DOMAIN storage :
       (IsEncoded(storage, k) /\ RecordedExpiry(storage, k).t = "num")
       => RecordedExpiry(storage, k).n >= now

\* C6: a cleanup pass leaves every entry whose expiry check passes as it was
\* (out-of-context entries, entries with no expiry and plain entries
\* included), and it adds or rewrites no key.
C6_CleanupFrame ==
  [][op' = "_refresh"
     => /\ \A k \in DOMAIN storage' :
             k \in DOMAIN storage /\ storage'[k] = storage[k]
        /\ \A k \in DOMAIN storage :
             ExpiryPasses(storage, k, now)
             => (k \in DOMAIN storage' /\ storage'[k] = storage[k])]_vars

C6_Witness ==
  /\ op = "_refresh"
  /\ pathname = <<"/">>
  /\ "k1" \notin DOMAIN storage
  /\ "k2" \in DOMAIN storage
  /\ storage["k2"] = setValueString(V, JStr(<<"/", "a">>), JNum(MaxNow))

\* C7: removeValue(k) returns true if and only if the backend held a value at
\* k before the call, whatever the stored string, and afterwards the backend
\* holds no value at k.
C7_RemoveIff ==
  [][\A k \in Keys :
       (op' = "removeValue" /\ arg' = k)
       => /\ (ret' = JBool(TRUE)) <=> (k \in DOMAIN storage)
          /\ k \notin DOMAIN storage']_vars

C9_ListExact ==
  op = "entries"
  => /\ ret.t = "list"
     /\ {ret.items[i][1] : i \in 1..Len(ret.items)}
          = {k \in DOMAIN storage :
               ContextPasses(storage, k, pathname) /\ ExpiryPasses(storage, k, now)}
     /\ \A i, j \in 1..Len(ret.items) :
          ret.items[i][1] = ret.items[j][1] => i = j
     /\ \A i \in 1..Len(ret.items) :
          ret.items[i][2] = getValue(storage, ret.items[i][1], pathname, now)

\* C10: getValue, entries, keys and values never raise, whatever strings the
\* backend holds.
C10_NeverRaise ==
  op \in {"getValue", "entries", "keys", "values"} => ret # Raise

\* C11: a stored string that is not valid JSON, or that parses to JSON which
\* is not an object carrying value, context and validTime, is a plain entry:
\* at every path and time getValue returns the raw string (unparsable) or the
\* parsed JSON (otherwise), entries() lists its key, and a cleanup pass does
\* not remove it.
IsPlain(st, k) == k \in DOMAIN st /\ ~IsEncoded(st, k)
PlainReading(st, k) ==
  IF JSONparse(getItem(st, k)).ok THEN JSONparse(getItem(st, k)).val
  ELSE getItem(st, k)
C11_PlainEntry ==
  [][\A k \in Keys :
       /\ (op' = "getValue" /\ arg' = k /\ IsPlain(storage', k))
          => ret' = PlainReading(storage', k)
       /\ (op' = "entries" /\ IsPlain(storage', k))
          => (ret'.t = "list" /\ \E i \in 1..Len(ret'.items) : ret'.items[i][1] = k)
       /\ (op' = "_refresh" /\ IsPlain(storage, k))
          => (k \in DOMAIN storage' /\ storage'[k] = storage[k])]_vars

\* C12: setValue(k, v, c, e) succeeds whatever the prior content of the
\* backend, the path and the clock; afterwards the backend holds at k the
\* encoding of {value: v, context: c (null when absent), validTime: e when e
\* is a number, e's epoch milliseconds when e is a Date, null otherwise},
\* also when that entry is already expired or out of context; every other
\* key is unchanged.
EncodingOf(v, c, e) ==
  <<LBrace, JStr(P_value), Colon>> \o JSONstringify(v)
    \o <<Comma, JStr(P_context), Colon, IF c = Undefined THEN JNull ELSE c,
         Comma, JStr(P_validTime), Colon,
         CASE e.t = "num" -> e [] e.t = "date" -> JNum(e.ms) [] OTHER -> JNull,
         RBrace>>
C12_StoreFrame ==
  [][op' = "setValue"
     => /\ arg' \in DOMAIN storage'
        /\ storage'[arg'] = EncodingOf(call'.val, call'.context, call'.validDate)
        /\ \A k \in Keys \ {arg'} :
             /\ k \in DOMAIN storage' <=> k \in DOMAIN storage
             /\ k \in DOMAIN storage => storage'[k] = storage[k]]_vars

C12_Witness ==
  /\ op = "setValue"
  /\ arg = "k1"
  /\ call.context = JStr(<<"/", "a">>)
  /\ call.validDate = JDate(1)
  /\ now > 1
  /\ pathname = <<"/">>
  /\ storage["k1"] = EncodingOf(V, JStr(<<"/", "a">>), JNum(1))
  /\ "k2" \in DOMAIN storage
  /\ storage["k2"] = <<Word>>

\* C13: getValue, entries, keys, values, getDate and enableDebug leave the
\* backend as it was, in every state; a key leaves the backend only through
\* removeValue or a cleanup pass.
C13_ReadOnly ==
  [][/\ op' \in {"getValue", "entries", "keys", "values", "getDate", "enableDebug"}
        => storage' = storage
     /\ \A k \in DOMAIN storage :
          k \notin DOMAIN storage' => op' \in {"removeValue", "_refresh"}]_vars

C13_Witness ==
  /\ op = "getValue"
  /\ ret = JNull
  /\ arg \in DOMAIN storage
  /\ IsEncoded(storage, arg)
  /\ ~ExpiryPasses(storage, arg, now)

\* C14: every unload event runs exactly one cleanup pass: the listener is
\* registered once, when the module initialises, and running the script
\* again while the API object is installed (its first function or its second)
\* registers no further listener and leaves the installed API in place.
C14_OneListener ==
  /\ page = [api |-> "first", listeners |-> <<"first">>]
  /\ op = "_refresh" => call.passes = 1

C14_Witness ==
  /\ op = "load"
  /\ page.api = "first"
  /\ Len(page.listeners) = 1
  /\ DOMAIN storage = Keys

\* C15: the debug flag changes nothing but console output: every read and
\* every cleanup pass gives the result and the backend it would give with the
\* flag the other way (the entry object built for each key is the same, a
\* cleanup pass leaves the same backend), only enableDebug changes the flag,
\* and enableDebug changes nothing else; so two runs of the same calls that
\* differ only in their enableDebug calls end with the same backend and the
\* same results.
C15_DebugBlind ==
  [][/\ op' = "entries"
        => \A k \in DOMAIN storage :
             _getEntryValueObjectLog(storage, k, ~DEBUG).entry
               = _getEntryValueObjectLog(storage, k, DEBUG).entry
     /\ op' = "getValue"
        => ret' = (LET o == _getEntryValueObjectLog(storage, arg', ~DEBUG).entry
                   IN IF o = Raise THEN Raise ELSE valueGetter(o, pathname, now))
     /\ op' = "_refresh" => storage' = _refreshLog(storage, now, ~DEBUG).st
     /\ DEBUG' # DEBUG => op' = "enableDebug"
     /\ op' = "enableDebug"
        => (storage' = storage /\ now' = now /\ pathname' = pathname
              /\ page' = page /\ ret' = Undefined)]_vars

C15_Witness ==
  /\ DEBUG = TRUE
  /\ op = "_refresh"
  /\ call.removed # {}
  /\ \E k \in DOMAIN storage : ~JSONparse(getItem(storage, k)).ok

\* C16: validity is evaluated at every read and never cached: an unexpired
\* entry bound to a context reads as its stored value exactly when the
\* current path matches the context, whatever earlier reads returned; so it
\* reads as null while the path does not match, as its value once the path
\* changes to a matching one with no write in between, and as null again when
\* the path changes back.
C16_NotCached ==
  (op = "getValue" /\ arg = "k1" /\ "k1" \in DOMAIN storage
     /\ ExpiryPasses(storage, "k1", now))
  => ret = (IF SegmentPrefix(RecordedContext(storage, "k1").s, pathname)
            THEN V ELSE JNull)

C16_Witness ==
  /\ op = "getValue"
  /\ reads = <<JNull, V, JNull>>
  /\ ExpiryPasses(storage, "k1", now)
  /\ RecordedExpiry(storage, "k1") = JNum(2)

\* C17: getDate(sec, min, hour), each offset an integer or absent (absent
\* counts as 0), returns the instant now + 1000*sec + 60000*min +
\* 3600000*hour milliseconds; when that sum is negative the instant is
\* earlier than now, so an entry stored with it as expiry reads as null.
OffsetOf(x) == IF x = Undefined THEN 0 ELSE x.n
OffsetSum ==
  MsPerSecond * OffsetOf(input.sec) + MsPerMinute * OffsetOf(input.min)
    + MsPerHour * OffsetOf(input.hour)
C17_FutureInstant ==
  /\ op = "getDate" => ret = JDate(now + OffsetSum)
  /\ (op = "getValue" /\ arg = "k1" /\ "k1" \in DOMAIN storage /\ OffsetSum < 0)
     => ret = JNull

\* C18: a cleanup pass is invisible to readers: whatever the backend holds,
\* at the same path and time getValue(k) for every key k and entries() give
\* the same result just after the pass as just before it.
C18_CleanupInvisible ==
  [][op' = "_refresh"
     => /\ \A k \in Keys :
             getValue(storage', k, pathname, now) = getValue(storage, k, pathname, now)
        /\ entries(storage', pathname, now) = entries(storage, pathname, now)]_vars

\* C19: expiry is monotonic: the clock never going back, once getValue(k)
\* returns null because the expiry check of the entry at k fails, getValue(k)
\* returns null and keys() leaves k out in every later state, whatever the
\* path, for as long as the string at k is the same.  Step by step: only a
\* tick changes the clock and only a navigation the path, and a key that
\* reads as expired still does after either, and is read so by getValue and
\* left out by keys().
ReadsExpired(st, k, path, time) ==
  /\ k \in DOMAIN st
  /\ LET o == _getEntryValueObject(st, k)
     IN /\ o # Raise
        /\ ~checkExpireDate(o, time)
        /\ valueGetter(o, path, time) = JNull
C19_ExpiryMonotone ==
  [][/\ op' # "tick" => now' = now
     /\ op' # "navigate" => pathname' = pathname
     /\ op' \in {"tick", "navigate", "getValue", "keys"}
        => \A k \in DOMAIN storage :
             (k \in DOMAIN storage' /\ storage'[k] = storage[k]
                /\ ReadsExpired(storage, k, pathname, now))
             => /\ now' >= now
                /\ op' \in {"tick", "navigate"}
                   => ReadsExpired(storage', k, pathname', now')
                /\ (op' = "getValue" /\ arg' = k) => ret' = JNull
                /\ (op' = "keys" /\ ret'.t = "list")
                   => \A i \in 1..Len(ret'.items) : ret'.items[i] # k]_vars

C19_Witness ==
  /\ op = "getValue"
  /\ ret = JNull
  /\ wrote[arg] = "stored"
  /\ pathname = <<"/", "a">>
  /\ storage[arg] = setValueString(V, JStr(<<"/", "a">>), JNum(1))
  /\ now > 2

\* C20 as stated: with another tab storing between the scan and the removals
\* of a cleanup pass, the pass removes a key only if the entry stored under
\* that key at the moment of the removal fails its expiry check, so an
\* unexpired entry just written by the other tab is never deleted.
C20_RemovesOnlyExpired ==
  [][(op' = "_refresh.visit" /\ call'.removed) => ~ExpiryPasses(storage, arg', now)]_vars

\* C20 amended: the pass removes a key only if the entry that its scan read
\* under that key fails its expiry check at the moment of the removal,
\* whatever the key holds by then.
C20_RemovesScanned ==
  [][(op' = "_refresh.visit" /\ call'.removed)
     => /\ Head(pending)[1] = arg'
        /\ Head(pending)[2].cls = "Custom"
        /\ Head(pending)[2]._validTime.t = "num"
        /\ Head(pending)[2]._validTime.n < now]_vars

C20_Witness ==
  /\ op = "_refresh.visit"
  /\ call.removed
  /\ call.stale

====
